---- MODULE Spec2Model ----
(***************************************************************************)
(* A model of sim/src/make/scenario.rs: turning a Scenario (people and     *)
(* their trips) into vehicles, parking assignments and trip specs.         *)
(*                                                                         *)
(* Options are sequences of length at most one: None is <<>>, Some(x) is   *)
(* <<x>>.  Vec indices are the source's (0-based); TLA+ sequences are      *)
(* 1-based, so Vec element k is seq[k + 1].                                *)
(***************************************************************************)
EXTENDS Integers, Sequences, FiniteSets, TLC

VARIABLES
    pc,                        \* which function is running, and where it is
    people,                    \* Scenario.people
    scenario_name,             \* Scenario.scenario_name
    only_seed_buses,           \* Scenario.only_seed_buses
    people0,                   \* Scenario.people at the call of a schedule utility
    args,                      \* the arguments of the schedule utility called
    map,                       \* the Map passed in
    rng,                       \* the XorShiftRng passed in (base generator)
    rng0,                      \* its state at the call
    trips,                     \* get_vehicles: self.trips
    trip_idx,                  \* get_vehicles: trips processed so far
    vehicle_specs,             \* get_vehicles: local
    cars_initially_parked_at,  \* get_vehicles: local
    vehicle_foreach_trip,      \* get_vehicles: local
    bike_idx,                  \* get_vehicles: local
    car_locations,             \* get_vehicles: local
    parked_cars,               \* instantiate / seed_parked_cars: Vec<(Vehicle, BuildingID)>
    open_spots_per_road,       \* seed_parked_cars: local
    ok,                        \* seed_parked_cars: local
    car_idx,                   \* seed_parked_cars: pairs iterated so far
    person_idx,                \* instantiate: people processed so far
    spawner,                   \* instantiate: the trips scheduled with the spawner
    sim,                       \* the Sim: people, scheduled trips, parked cars, free spots
    warnings                   \* Timer warnings, in order

vars == <<pc, people, scenario_name, only_seed_buses, people0, args, map, rng, rng0, trips,
          trip_idx, vehicle_specs, cars_initially_parked_at, vehicle_foreach_trip, bike_idx,
          car_locations, parked_cars, open_spots_per_road, ok, car_idx, person_idx, spawner,
          sim, warnings>>

----------------------------------------------------------------------------
(* Bounds of the model *)

MaxTrips == 3
MaxPeople == 2
MaxScenarioTrips == 3

----------------------------------------------------------------------------
(* Values *)

None == <<>>
Some(x) == <<x>>
is_none(o) == o = <<>>
is_some(o) == o # <<>>
unwrap(o) == o[1]

Min(S) == CHOOSE x \in S : \A y \in S : x <= y

Buildings == {"B1", "B2"}
Borders == {"I1", "I2"}
Lanes == {"L1", "L2"}

\* DrivingGoal
ParkNear(b) == [tag |-> "ParkNear", id |-> b]
GoalBorder(i) == [tag |-> "Border", id |-> i]
DrivingGoals == {ParkNear(b) : b \in Buildings} \cup {GoalBorder(i) : i \in Borders}

\* SidewalkSpot, by its connection (SidewalkPOI::Building or SidewalkPOI::Border)
SpotBldg(b) == [tag |-> "Building", id |-> b]
SpotBorder(i) == [tag |-> "Border", id |-> i]
SidewalkSpots == {SpotBldg(b) : b \in Buildings} \cup {SpotBorder(i) : i \in Borders}

\* TripEndpoint
Bldg(b) == [tag |-> "Bldg", id |-> b]
Border(i) == [tag |-> "Border", id |-> i]

\* IndividTrip { depart, trip: SpawnTrip }.  start is the variant's first field
\* (a lane Position, an IntersectionID, a BuildingID or a SidewalkSpot), goal its
\* DrivingGoal or destination SidewalkSpot.
Trip(kind, start, goal, is_bike, depart) ==
    [kind |-> kind, start |-> start, goal |-> goal, is_bike |-> is_bike, depart |-> depart]
VehicleAppearing(l, goal, is_bike) == Trip("VehicleAppearing", l, goal, is_bike, 0)
FromBorder(i, goal, is_bike) == Trip("FromBorder", i, goal, is_bike, 0)
UsingParkedCar(b, goal) == Trip("UsingParkedCar", b, goal, FALSE, 0)
UsingBike(spot, goal) == Trip("UsingBike", spot, goal, FALSE, 0)
JustWalking(spot, goal) == Trip("JustWalking", spot, goal, FALSE, 0)
UsingTransit(spot, goal) == Trip("UsingTransit", spot, goal, FALSE, 0)

\* All sequences over S of length at most n
SeqsUpTo(S, n) == UNION {[1..k -> S] : k \in 0..n}

----------------------------------------------------------------------------
(* The generator.  XorShiftRng is a library type: a state and a step.  It is *)
(* modelled as a full-period congruential generator over 16 states.          *)

RngStates == 0..15
next_u32(r) == (5 * r + 3) % 16

\* rng.gen_range(low, high): one draw; the sample and the advanced generator
gen_range(r) == [value |-> next_u32(r), rng |-> next_u32(r)]

\* abstutil::fork_rng: a child seeded from the parent's current state; the parent's
\* later output is not changed by the call (spec 4.1).
fork_rng(r) == [child |-> (7 * r + 1) % 16, rng |-> r]

\* slice.shuffle(rng): Fisher-Yates from the last index down, one draw per swap
RECURSIVE shuffle_from(_, _, _)
shuffle_from(s, i, r) ==
    IF i <= 1 THEN [seq |-> s, rng |-> r]
    ELSE LET d == gen_range(r)
             j == (d.value % i) + 1
             swapped == [s EXCEPT ![i] = s[j], ![j] = s[i]]
         IN shuffle_from(swapped, i - 1, d.rng)

shuffle(s, r) == shuffle_from(s, Len(s), r)

\* slice.choose(rng): None without a draw on an empty slice, else one draw
choose(s, r) ==
    IF s = <<>> THEN [value |-> None, rng |-> r]
    ELSE LET d == gen_range(r)
         IN [value |-> Some(s[(d.value % Len(s)) + 1]), rng |-> d.rng]

\* Scenario::rand_car
rand_car(r) ==
    LET d == gen_range(r)
    IN [spec |-> [vehicle_type |-> "Car", length |-> <<"car", d.value>>, max_speed |-> None],
        rng |-> d.rng]

\* Scenario::rand_bike
rand_bike(r) ==
    LET d == gen_range(r)
    IN [spec |-> [vehicle_type |-> "Bike", length |-> <<"BIKE_LENGTH", 0>>,
                  max_speed |-> Some(d.value)],
        rng |-> d.rng]

\* Scenario::rand_ped_speed
rand_ped_speed(r) == gen_range(r)

----------------------------------------------------------------------------
(* PersonSpec::get_vehicles *)

\* A find that takes the first car whatever its binding
find_car_any(locs, where) ==
    IF locs = <<>> THEN None ELSE Some(locs[1][1])

\* car_locations.iter().find(|(_, parked_at)| parked_at == where).map(|(idx, _)| idx)
find_car(locs, where) ==
    LET hits == {k \in 1..Len(locs) : locs[k][2] = where}
    IN IF hits = {} THEN None ELSE Some(locs[Min(hits)][1])

\* The new binding pushed with the old one left in place
wind_up_keep(locs, idx, goal) ==
    IF goal.tag = "ParkNear" THEN Append(locs, <<idx, Some(goal.id)>>)
    ELSE Append(locs, <<idx, None>>)

\* Where does this car wind up?  retain() drops its old binding, push() adds the new
wind_up(locs, idx, goal) ==
    LET kept == SelectSeq(locs, LAMBDA e : e[1] # idx)
    IN IF goal.tag = "ParkNear" THEN Append(kept, <<idx, Some(goal.id)>>)
       ELSE Append(kept, <<idx, None>>)

\* The locals of get_vehicles
GvState(specs, parked, foreach, bike, locs, r) ==
    [vehicle_specs |-> specs, cars_initially_parked_at |-> parked,
     vehicle_foreach_trip |-> foreach, bike_idx |-> bike, car_locations |-> locs,
     rng |-> r]

GvInit(r) == GvState(<<>>, <<>>, <<>>, None, <<>>, r)

\* The bike arms with a new bike for every trip
use_bike_new(st) ==
    LET b == rand_bike(st.rng)
    IN [st EXCEPT !.bike_idx = Some(Len(st.vehicle_specs)),
                  !.vehicle_specs = Append(st.vehicle_specs, b.spec),
                  !.rng = b.rng,
                  !.vehicle_foreach_trip =
                      Append(st.vehicle_foreach_trip, Some(Len(st.vehicle_specs)))]

\* The bike arms: create the bike on first use
use_bike(st) ==
    IF is_none(st.bike_idx)
    THEN LET b == rand_bike(st.rng)
         IN [st EXCEPT !.bike_idx = Some(Len(st.vehicle_specs)),
                       !.vehicle_specs = Append(st.vehicle_specs, b.spec),
                       !.rng = b.rng,
                       !.vehicle_foreach_trip =
                           Append(st.vehicle_foreach_trip, Some(Len(st.vehicle_specs)))]
    ELSE [st EXCEPT !.vehicle_foreach_trip = Append(st.vehicle_foreach_trip, st.bike_idx)]

\* The arm without the look for an off-map car: every trip gets a new car
use_offmap_car_new(st, goal) ==
    LET idx == Len(st.vehicle_specs)
        c == rand_car(st.rng)
    IN [st EXCEPT !.vehicle_specs = Append(st.vehicle_specs, c.spec),
                  !.rng = c.rng,
                  !.car_locations = Append(st.car_locations,
                                           <<idx, IF goal.tag = "ParkNear" THEN Some(goal.id) ELSE None>>),
                  !.vehicle_foreach_trip = Append(st.vehicle_foreach_trip, Some(idx))]

\* The non-bike VehicleAppearing / FromBorder arm
use_offmap_car(st, goal) ==
    LET found == find_car(st.car_locations, None)
    IN IF is_some(found)
       THEN [st EXCEPT !.car_locations = wind_up(st.car_locations, unwrap(found), goal),
                       !.vehicle_foreach_trip = Append(st.vehicle_foreach_trip, found)]
       ELSE LET idx == Len(st.vehicle_specs)
                c == rand_car(st.rng)
            IN [st EXCEPT !.vehicle_specs = Append(st.vehicle_specs, c.spec),
                          !.rng = c.rng,
                          !.car_locations = wind_up(st.car_locations, idx, goal),
                          !.vehicle_foreach_trip =
                              Append(st.vehicle_foreach_trip, Some(idx))]

\* The arm without the look for a car parked here: every trip gets a new car
use_parked_car_new(st, b, goal) ==
    LET idx == Len(st.vehicle_specs)
        c == rand_car(st.rng)
    IN [st EXCEPT !.vehicle_specs = Append(st.vehicle_specs, c.spec),
                  !.rng = c.rng,
                  !.cars_initially_parked_at = Append(st.cars_initially_parked_at, <<idx, b>>),
                  !.car_locations = Append(st.car_locations,
                                           <<idx, IF goal.tag = "ParkNear" THEN Some(goal.id) ELSE None>>),
                  !.vehicle_foreach_trip = Append(st.vehicle_foreach_trip, Some(idx))]

\* The arm without the record of where a new car starts
use_parked_car_unrecorded(st, b, goal) ==
    LET found == find_car(st.car_locations, Some(b))
        idx == IF is_some(found) THEN unwrap(found) ELSE Len(st.vehicle_specs)
        c == rand_car(st.rng)
    IN [st EXCEPT !.vehicle_specs = IF is_some(found) THEN @ ELSE Append(@, c.spec),
                  !.rng = IF is_some(found) THEN @ ELSE c.rng,
                  !.car_locations = wind_up(st.car_locations, idx, goal),
                  !.vehicle_foreach_trip = Append(st.vehicle_foreach_trip, Some(idx))]

\* The UsingParkedCar arm
use_parked_car(st, b, goal) ==
    LET found == find_car(st.car_locations, Some(b))
    IN IF is_some(found)
       THEN [st EXCEPT !.car_locations = wind_up(st.car_locations, unwrap(found), goal),
                       !.vehicle_foreach_trip = Append(st.vehicle_foreach_trip, found)]
       ELSE LET idx == Len(st.vehicle_specs)
                c == rand_car(st.rng)
            IN [st EXCEPT !.vehicle_specs = Append(st.vehicle_specs, c.spec),
                          !.rng = c.rng,
                          !.cars_initially_parked_at =
                              Append(st.cars_initially_parked_at, <<idx, b>>),
                          !.car_locations = wind_up(st.car_locations, idx, goal),
                          !.vehicle_foreach_trip =
                              Append(st.vehicle_foreach_trip, Some(idx))]

\* The iteration with UsingBike in the arm of the trips that use no vehicle
get_vehicles_trip_nobike(st, t) ==
    CASE t.kind \in {"VehicleAppearing", "FromBorder"} ->
            IF t.is_bike THEN use_bike(st) ELSE use_offmap_car(st, t.goal)
      [] t.kind = "UsingParkedCar" -> use_parked_car(st, t.start, t.goal)
      [] OTHER -> [st EXCEPT !.vehicle_foreach_trip = Append(st.vehicle_foreach_trip, None)]

\* One iteration of `for trip in &self.trips`
get_vehicles_trip(st, t) ==
    CASE t.kind \in {"VehicleAppearing", "FromBorder"} ->
            IF t.is_bike THEN use_bike(st) ELSE use_offmap_car(st, t.goal)
      [] t.kind = "UsingParkedCar" -> use_parked_car(st, t.start, t.goal)
      [] t.kind = "UsingBike" -> use_bike(st)
      [] OTHER -> [st EXCEPT !.vehicle_foreach_trip = Append(st.vehicle_foreach_trip, None)]

RECURSIVE get_vehicles_from(_, _, _)
get_vehicles_from(st, ts, k) ==
    IF k > Len(ts) THEN st ELSE get_vehicles_from(get_vehicles_trip(st, ts[k]), ts, k + 1)

\* The whole call: (vehicle_specs, cars_initially_parked_at, vehicle_foreach_trip)
\* and the generator it leaves
get_vehicles(ts, r) == get_vehicles_from(GvInit(r), ts, 1)

----------------------------------------------------------------------------
(* Scenario::count_parked_cars_per_bldg *)

\* XorShiftRng::from_seed([0; 16])
DummySeed == 0

\* Counter::new(): every count is 0
NewCounter == [b \in Buildings |-> 0]

\* Only the first of the person's pairs is counted
count_pairs_first(per_bldg, pairs, k) ==
    IF pairs = <<>> THEN per_bldg ELSE [per_bldg EXCEPT ![pairs[1][2]] = @ + 1]

\* for (_, b) in cars_initially_parked_at { per_bldg.inc(b) }
RECURSIVE count_pairs(_, _, _)
count_pairs(per_bldg, pairs, k) ==
    IF k > Len(pairs) THEN per_bldg
    ELSE count_pairs([per_bldg EXCEPT ![pairs[k][2]] = @ + 1], pairs, k + 1)

\* for p in &self.people: get_vehicles on the one dummy generator, then count
RECURSIVE count_people_from(_, _, _, _)
count_people_from(ps, k, r, per_bldg) ==
    IF k > Len(ps) THEN per_bldg
    ELSE LET gv == get_vehicles(ps[k].trips, r)
         IN count_people_from(ps, k + 1, gv.rng,
                              count_pairs(per_bldg, gv.cars_initially_parked_at, 1))

count_parked_cars_per_bldg(ps) == count_people_from(ps, 1, DummySeed, NewCounter)

----------------------------------------------------------------------------
(* Running get_vehicles on one person, a trip at a time *)

\* The trips a person under vehicle resolution may hold
VehicleTrips ==
    {VehicleAppearing("L1", g, FALSE) : g \in {ParkNear("B1"), ParkNear("B2"), GoalBorder("I1")}}
    \cup {FromBorder("I1", g, FALSE) : g \in {ParkNear("B1"), GoalBorder("I1")}}
    \cup {VehicleAppearing("L1", ParkNear("B1"), TRUE), FromBorder("I1", ParkNear("B1"), TRUE),
          UsingBike(SpotBldg("B1"), ParkNear("B1"))}
    \cup {UsingParkedCar(b, g) : b \in Buildings,
                                 g \in {ParkNear("B1"), ParkNear("B2"), GoalBorder("I1")}}
    \cup {JustWalking(SpotBldg("B1"), SpotBldg("B2")),
          UsingTransit(SpotBldg("B1"), SpotBorder("I1"))}

Seeds == {1, 6}

\* A Map with nothing on it, and a Sim nothing was done to
NoMap == [lane_src |-> <<>>, outgoing |-> <<>>, spawn_ok |-> {}, bus_routes |-> <<>>,
          all_roads |-> <<>>, next_roads |-> <<>>, building_to_road |-> <<>>,
          lane_parent |-> <<>>]
NoSim == [name |-> <<>>, buses |-> <<>>, people |-> <<>>, trips |-> <<>>, parked |-> <<>>,
          free_spots |-> <<>>]

\* No schedule utility is running
IdleSchedule ==
    /\ people = <<>>
    /\ scenario_name = <<"scenario">>
    /\ only_seed_buses = Some({})
    /\ people0 = <<>>
    /\ args = [days |-> 0, avoid_inbound_trips |-> FALSE]

\* get_vehicles is not running
IdleVehicles ==
    /\ trips = <<>>
    /\ trip_idx = 0
    /\ vehicle_specs = <<>>
    /\ cars_initially_parked_at = <<>>
    /\ vehicle_foreach_trip = <<>>
    /\ bike_idx = None
    /\ car_locations = <<>>

\* seed_parked_cars and instantiate are not running
IdleParking ==
    /\ parked_cars = <<>>
    /\ open_spots_per_road = <<>>
    /\ ok = TRUE
    /\ car_idx = 0
    /\ person_idx = 0
    /\ spawner = <<>>
    /\ sim = NoSim
    /\ warnings = <<>>

scheduleVars == <<people, scenario_name, only_seed_buses, people0, args>>
vehicleVars == <<trips, trip_idx, vehicle_specs, cars_initially_parked_at,
                 vehicle_foreach_trip, bike_idx, car_locations>>
parkingVars == <<parked_cars, open_spots_per_road, ok, car_idx, person_idx, spawner, sim,
                 warnings>>

InitVehicles ==
    /\ pc = "get_vehicles"
    /\ trips \in SeqsUpTo(VehicleTrips, MaxTrips)
    /\ rng \in Seeds
    /\ rng0 = rng
    /\ map = NoMap
    /\ trip_idx = 0
    /\ vehicle_specs = <<>>
    /\ cars_initially_parked_at = <<>>
    /\ vehicle_foreach_trip = <<>>
    /\ bike_idx = None
    /\ car_locations = <<>>
    /\ IdleSchedule
    /\ IdleParking

\* The locals as one value
GvLocals ==
    GvState(vehicle_specs, cars_initially_parked_at, vehicle_foreach_trip, bike_idx,
            car_locations, rng)

\* One iteration of the loop over self.trips
GvTrip ==
    /\ pc = "get_vehicles"
    /\ trip_idx < Len(trips)
    /\ LET st == get_vehicles_trip(GvLocals, trips[trip_idx + 1])
       IN /\ vehicle_specs' = st.vehicle_specs
          /\ cars_initially_parked_at' = st.cars_initially_parked_at
          /\ vehicle_foreach_trip' = st.vehicle_foreach_trip
          /\ bike_idx' = st.bike_idx
          /\ car_locations' = st.car_locations
          /\ rng' = st.rng
    /\ trip_idx' = trip_idx + 1
    /\ UNCHANGED <<pc, trips, map, rng0, scheduleVars, parkingVars>>

\* The loop is over: the three vectors are returned
GvReturn ==
    /\ pc = "get_vehicles"
    /\ trip_idx = Len(trips)
    /\ pc' = "get_vehicles_returned"
    /\ UNCHANGED <<map, rng, rng0, scheduleVars, vehicleVars, parkingVars>>

NextVehicles == GvTrip \/ GvReturn

SpecVehicles == InitVehicles /\ [][NextVehicles]_vars

----------------------------------------------------------------------------
(* Claims about get_vehicles *)

IsCarArrival(t) == t.kind \in {"VehicleAppearing", "FromBorder"} /\ ~t.is_bike
IsBikeTrip(t) == (t.kind \in {"VehicleAppearing", "FromBorder"} /\ t.is_bike) \/ t.kind = "UsingBike"
HasDrivingGoal(t) == t.kind \in {"VehicleAppearing", "FromBorder", "UsingParkedCar", "UsingBike"}
CarIndices == {k \in 0..(Len(vehicle_specs) - 1) : vehicle_specs[k + 1].vehicle_type = "Car"}
Returned == pc = "get_vehicles_returned"
ParkedPairs == {cars_initially_parked_at[k] : k \in 1..Len(cars_initially_parked_at)}

\* [a trip with goal ParkNear(B1), then UsingParkedCar(B1, border)]
C3_Case ==
    /\ Returned
    /\ Len(trips) = 2
    /\ HasDrivingGoal(trips[1]) /\ trips[1].goal = ParkNear("B1")
    /\ trips[2].kind = "UsingParkedCar" /\ trips[2].start = "B1"
    /\ trips[2].goal.tag = "Border"

\* C3 as stated: for [goal ParkNear(B1), then UsingParkedCar(B1, border)] there is exactly
\* one car, it is in cars_initially_parked_at with building B1, and the second trip uses it.
C3_Original ==
    C3_Case =>
        \E c \in CarIndices :
            /\ CarIndices = {c}
            /\ <<c, "B1">> \in ParkedPairs
            /\ vehicle_foreach_trip[2] = Some(c)

\* C3, amended: for [goal ParkNear(B1), then UsingParkedCar(B1, border)] there is exactly
\* one car and the second trip uses it; the car is recorded as initially parked only when a
\* UsingParkedCar trip created it: not at all when the first trip is a non-bike
\* VehicleAppearing/FromBorder (both trips then use index 0), at the first trip's start
\* building when the first trip is UsingParkedCar, at B1 when the first trip is a bike trip.
C3_OneCarReused ==
    C3_Case =>
        \E c \in CarIndices :
            /\ CarIndices = {c}
            /\ vehicle_foreach_trip[2] = Some(c)
            /\ IsCarArrival(trips[1]) =>
                   /\ cars_initially_parked_at = <<>>
                   /\ vehicle_foreach_trip = <<Some(0), Some(0)>>
                   /\ Len(vehicle_specs) = 1
            /\ trips[1].kind = "UsingParkedCar" =>
                   /\ cars_initially_parked_at = << <<0, trips[1].start>> >>
                   /\ vehicle_foreach_trip = <<Some(0), Some(0)>>
                   /\ Len(vehicle_specs) = 1
            /\ IsBikeTrip(trips[1]) =>
                   /\ cars_initially_parked_at = << <<1, "B1">> >>
                   /\ vehicle_foreach_trip = <<Some(0), Some(1)>>
                   /\ Len(vehicle_specs) = 2

\* A drive-in that parks at B1, then the parked car leaves: resolved
C3_Witness ==
    /\ C3_Case
    /\ IsCarArrival(trips[1])
    /\ Len(vehicle_specs) = 1

\* Two non-bike VehicleAppearing -> border trips, nothing but walking or transit between
C4_Case ==
    /\ Returned
    /\ Len(trips) >= 2
    /\ \A k \in {1, Len(trips)} :
           /\ trips[k].kind = "VehicleAppearing" /\ ~trips[k].is_bike
           /\ trips[k].goal.tag = "Border"
    /\ \A k \in 2..(Len(trips) - 1) : trips[k].kind \in {"JustWalking", "UsingTransit"}

\* C4 as stated: two non-bike VehicleAppearing -> border trips get two distinct cars.
C4_Original ==
    C4_Case =>
        /\ vehicle_foreach_trip[1] # vehicle_foreach_trip[Len(trips)]
        /\ Len(vehicle_specs) = 2

\* C4, amended: two non-bike VehicleAppearing -> border trips with no parked-car usage
\* between them share one car: both are assigned index 0 and vehicle_specs has length 1.
C4_OneCarShared ==
    C4_Case =>
        /\ vehicle_foreach_trip[1] = Some(0)
        /\ vehicle_foreach_trip[Len(trips)] = Some(0)
        /\ Len(vehicle_specs) = 1
        /\ vehicle_specs[1].vehicle_type = "Car"
        /\ cars_initially_parked_at = <<>>

C4_Witness ==
    /\ C4_Case
    /\ Len(trips) = 2
    /\ Len(vehicle_foreach_trip) = 2

\* The cars bound to off-map in the car-location state
OffMapCars == {car_locations[k][1] : k \in {j \in 1..Len(car_locations) : car_locations[j][2] = None}}

\* C5: a non-bike VehicleAppearing/FromBorder trip reuses an off-map car when there is one
\* and creates no car; it creates a car only when none is off-map; afterwards the car used
\* is bound to ParkNear's building, or to off-map for a border goal.
C5_ReuseOffMap ==
    [][(pc = "get_vehicles" /\ trip_idx' = trip_idx + 1 /\ IsCarArrival(trips[trip_idx + 1])) =>
        LET t == trips[trip_idx + 1]
            used == vehicle_foreach_trip'[trip_idx + 1]
            bound == {k \in 1..Len(car_locations') : car_locations'[k][1] = unwrap(used)}
        IN /\ is_some(used)
           /\ OffMapCars # {} =>
                  /\ unwrap(used) \in OffMapCars
                  /\ vehicle_specs' = vehicle_specs
           /\ OffMapCars = {} =>
                  /\ unwrap(used) = Len(vehicle_specs)
                  /\ Len(vehicle_specs') = Len(vehicle_specs) + 1
                  /\ vehicle_specs'[Len(vehicle_specs')].vehicle_type = "Car"
           /\ Cardinality(bound) = 1
           /\ \A k \in bound :
                  car_locations'[k][2] = IF t.goal.tag = "ParkNear" THEN Some(t.goal.id) ELSE None
           /\ cars_initially_parked_at' = cars_initially_parked_at
    ]_vars

\* A third trip drove in while a car was off-map and another was parked: it took the
\* off-map one
C5_Witness ==
    /\ trip_idx = 3
    /\ IsCarArrival(trips[3])
    /\ trips[1].kind = "UsingParkedCar" /\ trips[1].goal.tag = "ParkNear"
    /\ IsCarArrival(trips[2]) /\ trips[2].goal.tag = "Border"
    /\ vehicle_foreach_trip = <<Some(0), Some(1), Some(1)>>

----------------------------------------------------------------------------
(* find_spot_near_building *)

Roads == {"R1", "R2", "R3"}

\* The road a spot belongs to: Onstreet(l, _) is on its lane's parent, Offstreet(b, _)
\* on the parent of the building's sidewalk
Onstreet(l, n) == <<"Onstreet", l, n>>
Offstreet(b, n) == <<"Offstreet", b, n>>
spot_road(m, spot) ==
    IF spot[1] = "Onstreet" THEN m.lane_parent[spot[2]] ELSE m.building_to_road[spot[2]]

\* A pool that only counts as free when it holds more than one spot
has_free_spot_two(pools, r) == r \in DOMAIN pools /\ Len(pools[r]) > 1

\* if let Some(spots) = open_spots_per_road.get_mut(&r) { if !spots.is_empty() ..
has_free_spot(pools, r) == r \in DOMAIN pools /\ pools[r] # <<>>

\* Only the first of the next roads is looked at
enqueue_next_one(queue, visited, nexts, k) ==
    IF nexts = <<>> \/ nexts[1] \in visited THEN [roads_queue |-> queue, visited |-> visited]
    ELSE [roads_queue |-> Append(queue, nexts[1]), visited |-> visited \cup {nexts[1]}]

\* Every next road not yet visited is pushed twice
RECURSIVE enqueue_next_twice(_, _, _, _)
enqueue_next_twice(queue, visited, nexts, k) ==
    IF k > Len(nexts) THEN [roads_queue |-> queue, visited |-> visited]
    ELSE IF nexts[k] \in visited THEN enqueue_next_twice(queue, visited, nexts, k + 1)
    ELSE enqueue_next_twice(Append(Append(queue, nexts[k]), nexts[k]),
                            visited \cup {nexts[k]}, nexts, k + 1)

\* for next_r in map.get_next_roads(r): push_back and insert the roads not yet visited
RECURSIVE enqueue_next(_, _, _, _)
enqueue_next(queue, visited, nexts, k) ==
    IF k > Len(nexts) THEN [roads_queue |-> queue, visited |-> visited]
    ELSE IF nexts[k] \in visited THEN enqueue_next(queue, visited, nexts, k + 1)
    ELSE enqueue_next(Append(queue, nexts[k]), visited \cup {nexts[k]}, nexts, k + 1)

\* The loop returning the last spot of the pool without taking it off the pool
RECURSIVE find_spot_loop_peek(_, _, _, _, _)
find_spot_loop_peek(queue, visited, popped, pools, m) ==
    IF queue = <<>>
    THEN [spot |-> None, pools |-> pools, visited |-> visited, popped |-> popped,
          warned |-> << <<"Giving up looking for a free parking spot">> >>]
    ELSE LET r == Head(queue)
         IN IF has_free_spot(pools, r)
            THEN [spot |-> Some(pools[r][Len(pools[r])]), pools |-> pools,
                  visited |-> visited, popped |-> Append(popped, r), warned |-> <<>>]
            ELSE LET e == enqueue_next(Tail(queue), visited, m.next_roads[r], 1)
                 IN find_spot_loop_peek(e.roads_queue, e.visited, Append(popped, r), pools, m)

\* The loop of find_spot_near_building.  popped lists the roads taken off the queue.
RECURSIVE find_spot_loop(_, _, _, _, _)
find_spot_loop(queue, visited, popped, pools, m) ==
    IF queue = <<>>
    THEN [spot |-> None, pools |-> pools, visited |-> visited, popped |-> popped,
          warned |-> << <<"Giving up looking for a free parking spot">> >>]
    ELSE LET r == Head(queue)
         IN IF has_free_spot(pools, r)
            THEN [spot |-> Some(pools[r][Len(pools[r])]),
                  pools |-> [pools EXCEPT ![r] = SubSeq(pools[r], 1, Len(pools[r]) - 1)],
                  visited |-> visited, popped |-> Append(popped, r), warned |-> <<>>]
            ELSE LET e == enqueue_next(Tail(queue), visited, m.next_roads[r], 1)
                 IN find_spot_loop(e.roads_queue, e.visited, Append(popped, r), pools, m)

find_spot_near_building(b, pools, m) ==
    LET start == m.building_to_road[b]
    IN find_spot_loop(<<start>>, {start}, <<>>, pools, m)

----------------------------------------------------------------------------
(* seed_parked_cars *)

\* Group the free spots by road, in the order sim.get_all_parking_spots() lists them
group_spots(free, m) ==
    LET with_spots == {spot_road(m, free[k]) : k \in 1..Len(free)}
    IN [r \in with_spots |-> SelectSeq(free, LAMBDA spot : spot_road(m, spot) = r)]

\* The shuffles drawing from the base generator itself
RECURSIVE shuffle_pools_base(_, _, _, _)
shuffle_pools_base(pools, roads, k, base) ==
    IF k > Len(roads) THEN [pools |-> pools, rng |-> base]
    ELSE IF roads[k] \in DOMAIN pools
         THEN LET sh == shuffle(pools[roads[k]], base)
              IN shuffle_pools_base([pools EXCEPT ![roads[k]] = sh.seq], roads, k + 1, sh.rng)
         ELSE shuffle_pools_base(pools, roads, k + 1, base)

\* for r in map.all_roads(): fork the base generator, shuffle r's pool if it has one
RECURSIVE shuffle_pools(_, _, _, _)
shuffle_pools(pools, roads, k, base) ==
    IF k > Len(roads) THEN [pools |-> pools, rng |-> base]
    ELSE LET f == fork_rng(base)
         IN IF roads[k] \in DOMAIN pools
            THEN shuffle_pools([pools EXCEPT ![roads[k]] = shuffle(pools[roads[k]], f.child).seq],
                               roads, k + 1, f.rng)
            ELSE shuffle_pools(pools, roads, k + 1, f.rng)

\* Lines 264-281: the pools as the search will see them, and the base generator left
seed_setup(free, m, base) == shuffle_pools(group_spots(free, m), m.all_roads, 1, base)

\* sim.seed_parked_car(vehicle, spot): the spot is taken
seed_parked_car(s, vehicle, spot) ==
    [s EXCEPT !.parked = Append(s.parked, <<vehicle, spot>>),
              !.free_spots = SelectSeq(s.free_spots, LAMBDA x : x # spot)]

\* Entry of seed_parked_cars up to the loop over parked_cars
SeedSetup ==
    /\ pc = "seed_parked_cars"
    /\ LET su == seed_setup(sim.free_spots, map, rng)
       IN /\ open_spots_per_road' = su.pools
          /\ rng' = su.rng
    /\ ok' = TRUE
    /\ car_idx' = 0
    /\ pc' = "seed_loop"
    /\ UNCHANGED <<map, rng0, parked_cars, person_idx, spawner, sim, warnings, scheduleVars,
                   vehicleVars>>

\* One iteration with ok still true: look for a spot
SeedCar ==
    /\ pc = "seed_loop"
    /\ car_idx < Len(parked_cars)
    /\ ok
    /\ LET vehicle == parked_cars[car_idx + 1][1]
           b == parked_cars[car_idx + 1][2]
           found == find_spot_near_building(b, open_spots_per_road, map)
       IN /\ open_spots_per_road' = found.pools
          /\ IF is_some(found.spot)
             THEN /\ sim' = seed_parked_car(sim, vehicle, unwrap(found.spot))
                  /\ warnings' = warnings \o found.warned
                  /\ ok' = TRUE
             ELSE /\ sim' = sim
                  /\ warnings' = warnings \o found.warned
                                 \o << <<"Not enough room to seed parked cars.">> >>
                  /\ ok' = FALSE
    /\ car_idx' = car_idx + 1
    /\ UNCHANGED <<pc, map, rng, rng0, parked_cars, person_idx, spawner, scheduleVars,
                   vehicleVars>>

\* An iteration after a failure that searches all the same
SeedSkipRetry ==
    /\ pc = "seed_loop"
    /\ car_idx < Len(parked_cars)
    /\ ~ok
    /\ LET found == find_spot_near_building(parked_cars[car_idx + 1][2], open_spots_per_road, map)
       IN /\ open_spots_per_road' = found.pools
          /\ sim' = IF is_some(found.spot)
                    THEN seed_parked_car(sim, parked_cars[car_idx + 1][1], unwrap(found.spot))
                    ELSE sim
          /\ warnings' = warnings \o found.warned
    /\ car_idx' = car_idx + 1
    /\ UNCHANGED <<pc, map, rng, rng0, parked_cars, ok, person_idx, spawner, scheduleVars,
                   vehicleVars>>

\* One iteration after a failure: continue
SeedSkip ==
    /\ pc = "seed_loop"
    /\ car_idx < Len(parked_cars)
    /\ ~ok
    /\ car_idx' = car_idx + 1
    /\ UNCHANGED <<pc, map, rng, rng0, parked_cars, open_spots_per_road, ok, person_idx,
                   spawner, sim, warnings, scheduleVars, vehicleVars>>

\* The loop is over
SeedReturn ==
    /\ pc = "seed_loop"
    /\ car_idx = Len(parked_cars)
    /\ pc' = "seed_parked_cars_returned"
    /\ UNCHANGED <<map, rng, rng0, parkingVars, scheduleVars, vehicleVars>>

----------------------------------------------------------------------------
(* Running seed_parked_cars on a map, an inventory of free spots and a batch *)

MaxSpots == 2
MaxCars == 2

Edges == {<<"R1", "R2">>, <<"R1", "R3">>, <<"R2", "R3">>}
RoadOrder == <<"R1", "R2", "R3">>

\* get_next_roads of a two-way network with edges E, neighbours in road order
TwoWay(E) ==
    [r \in Roads |->
        SelectSeq(RoadOrder, LAMBDA q : <<r, q>> \in E \/ <<q, r>> \in E)]

\* The road networks: every two-way network on three roads, and two whose adjacency
\* is one-way or listed in another order
RoadGraphs ==
    {TwoWay(E) : E \in SUBSET Edges}
    \cup {[R1 |-> <<"R3", "R2">>, R2 |-> <<>>, R3 |-> <<"R2">>],
          [R1 |-> <<"R3", "R2">>, R2 |-> <<"R1">>, R3 |-> <<"R1", "R3">>]}

ParkingMap(g) ==
    [NoMap EXCEPT
        !.all_roads = RoadOrder,
        !.next_roads = g,
        !.building_to_road = [b \in Buildings |-> IF b = "B1" THEN "R1" ELSE "R3"],
        !.lane_parent = [l \in {"P1", "P2", "P3"} |->
                            IF l = "P1" THEN "R1" ELSE IF l = "P2" THEN "R2" ELSE "R3"]]

\* sim.get_all_parking_spots().1 with n[k] on-street spots on road k and off spots at B2
Inventory(n, off) ==
    [k \in 1..n[1] |-> Onstreet("P1", k - 1)]
    \o [k \in 1..n[2] |-> Onstreet("P2", k - 1)]
    \o [k \in 1..off |-> Offstreet("B2", k - 1)]
    \o [k \in 1..n[3] |-> Onstreet("P3", k - 1)]

Inventories == {Inventory(n, off) : n \in [1..3 -> 0..MaxSpots], off \in {0, 1}}

\* Batches: vehicle k of the batch wants to park near some building
Batches ==
    UNION {{[k \in 1..n |-> <<k, bs[k]>>] : bs \in [1..n -> Buildings]} : n \in 0..MaxCars}

InitParking ==
    /\ pc = "seed_parked_cars"
    /\ map \in {ParkingMap(g) : g \in RoadGraphs}
    /\ sim \in {[NoSim EXCEPT !.free_spots = inv] : inv \in Inventories}
    /\ parked_cars \in Batches
    /\ rng \in Seeds
    /\ rng0 = rng
    /\ open_spots_per_road = <<>>
    /\ ok = TRUE
    /\ car_idx = 0
    /\ person_idx = 0
    /\ spawner = <<>>
    /\ warnings = <<>>
    /\ IdleSchedule
    /\ IdleVehicles

NextParking == SeedSetup \/ SeedCar \/ SeedSkip \/ SeedReturn

SpecParking == InitParking /\ [][NextParking]_vars

\* seed_parked_cars runs on one thread and nothing suspends it: a step that can be taken
\* is taken.  The runs are those of one seed on roads with one free spot or none.
InitParkingFair ==
    /\ InitParking
    /\ rng = 1
    /\ sim.free_spots \in {Inventory(n, 0) : n \in [1..3 -> {0, 1}]}

SpecParkingFair == InitParkingFair /\ [][NextParking]_vars /\ WF_vars(NextParking)

----------------------------------------------------------------------------
(* Claims about the parking allocator *)

\* The roads within k hops of road from, following get_next_roads
RECURSIVE Within(_, _, _)
Within(m, from, k) ==
    IF k = 0 THEN {from}
    ELSE LET near == Within(m, from, k - 1)
         IN near \cup {m.next_roads[r][j] : <<r, j>> \in
                          {<<r, j>> \in near \X (1..Cardinality(Roads)) : j <= Len(m.next_roads[r])}}

Reachable(m, from, to) == to \in Within(m, from, Cardinality(Roads))
HopDist(m, from, to) == Min({k \in 0..Cardinality(Roads) : to \in Within(m, from, k)})
PoolSpots(pools, r) == IF r \in DOMAIN pools THEN {pools[r][k] : k \in 1..Len(pools[r])} ELSE {}
FreeOn(r) == {k \in 1..Len(sim.free_spots) : spot_road(map, sim.free_spots[k]) = r}

\* C1: when the search for a building returns a spot on road R, R is reachable from the
\* building's road, the spot was in R's pool, and no road strictly closer in hops had a
\* free spot when the search was called.
C1_NearestRoad ==
    [][(pc = "seed_loop" /\ ok /\ car_idx' = car_idx + 1 /\ Len(sim'.parked) > Len(sim.parked)) =>
        LET start == map.building_to_road[parked_cars[car_idx + 1][2]]
            spot == sim'.parked[Len(sim'.parked)][2]
            R == spot_road(map, spot)
        IN /\ Reachable(map, start, R)
           /\ spot \in PoolSpots(open_spots_per_road, R)
           /\ \A r \in Roads :
                  (Reachable(map, start, r) /\ HopDist(map, start, r) < HopDist(map, start, R))
                      => PoolSpots(open_spots_per_road, r) = {}
    ]_vars

\* The chain R1-R2-R3 with 0, 1 and 2 free spots and a building on R1: the spot handed
\* out is R2's, and R3 keeps its two
C1_Witness ==
    /\ map.next_roads = TwoWay({<<"R1", "R2">>, <<"R2", "R3">>})
    /\ pc = "seed_loop" /\ car_idx = 1
    /\ parked_cars[1][2] = "B1"
    /\ Len(sim.parked) = 1
    /\ spot_road(map, sim.parked[1][2]) = "R2"
    /\ Cardinality(FreeOn("R3")) = 2
    /\ FreeOn("R1") = {} /\ FreeOn("R2") = {}

NotEnoughRoom ==
    {k \in 1..Len(warnings) : warnings[k] = <<"Not enough room to seed parked cars.">>}

\* C2: after the first failed search of a batch no later pair is bound to a spot and no
\* further search is made (the pools, the Sim and the warnings stay as they are); the
\* remaining pairs are still iterated; the warning is there once after a failure, and not
\* before.
C2_FailFast ==
    /\ [](pc \in {"seed_loop", "seed_parked_cars_returned"} =>
            /\ Cardinality(NotEnoughRoom) = (IF ok THEN 0 ELSE 1)
            /\ pc = "seed_parked_cars_returned" => car_idx = Len(parked_cars))
    /\ [][(pc = "seed_loop" /\ ~ok) =>
            /\ ~ok'
            /\ sim' = sim
            /\ open_spots_per_road' = open_spots_per_road
            /\ warnings' = warnings
            /\ car_idx' = car_idx + 1 \/ pc' = "seed_parked_cars_returned"
       ]_vars

\* The first pair failed, the second was skipped although a search for it would succeed
C2_Witness ==
    /\ pc = "seed_parked_cars_returned"
    /\ ~ok
    /\ Len(parked_cars) = 2
    /\ sim.parked = <<>>
    /\ is_some(find_spot_near_building(parked_cars[2][2], open_spots_per_road, map).spot)

PoolOf(pools, r) == IF r \in DOMAIN pools THEN Some(pools[r]) ELSE None
SpotsOn(free, m, r) == SelectSeq(free, LAMBDA spot : spot_road(m, spot) = r)
JustSetUp == pc = "seed_loop" /\ car_idx = 0

\* C10: the shuffled order of road R's pool is the one given by the inventory that holds
\* R's free spots and nothing on any other road (same base generator, same roads). Every
\* inventory is compared with that one, so two inventories with the same free spots on R
\* give R's pool the same order whatever they have on the other roads.
C10_ShuffleIndependent ==
    JustSetUp =>
        \A r \in Roads :
            LET alone == SpotsOn(sim.free_spots, map, r)
            IN PoolOf(seed_setup(alone, map, rng0).pools, r) = PoolOf(open_spots_per_road, r)

\* R3's two spots were swapped by its shuffle while R1 and R2 have pools of their own
C10_Witness ==
    /\ JustSetUp
    /\ DOMAIN open_spots_per_road = Roads
    /\ Len(open_spots_per_road["R1"]) = 2
    /\ Len(open_spots_per_road["R3"]) = 2
    /\ open_spots_per_road["R3"] # SpotsOn(sim.free_spots, map, "R3")

----------------------------------------------------------------------------
(* SpawnTrip::start, SpawnTrip::end *)

\* SidewalkSpot.connection as a TripEndpoint
spot_endpoint(spot) == IF spot.tag = "Building" THEN Bldg(spot.id) ELSE Border(spot.id)

\* SpawnTrip::start
trip_start(t, m) ==
    CASE t.kind = "VehicleAppearing" -> Border(m.lane_src[t.start])
      [] t.kind = "FromBorder" -> Border(t.start)
      [] t.kind = "UsingParkedCar" -> Bldg(t.start)
      [] OTHER -> spot_endpoint(t.start)

\* SpawnTrip::end
trip_end(t) ==
    IF t.kind \in {"VehicleAppearing", "FromBorder", "UsingParkedCar", "UsingBike"}
    THEN (IF t.goal.tag = "ParkNear" THEN Bldg(t.goal.id) ELSE Border(t.goal.id))
    ELSE spot_endpoint(t.goal)

----------------------------------------------------------------------------
(* Scenario::remove_weird_schedules *)

\* The id of the endpoint, of a building or of a border intersection
endpoint_id(e) == Some(e.id)

\* TripEndpoint::Bldg(b) => Some(b), TripEndpoint::Border(_) => None
endpoint_bldg(e) == IF e.tag = "Bldg" THEN Some(e.id) ELSE None

\* A comparison of the endpoints themselves, border intersections included
warps_exact(a, b, m) == trip_end(a) # trip_start(b, m)

\* end_bldg != start_bldg for the pair (a, b)
warps(a, b, m) == endpoint_bldg(trip_end(a)) # endpoint_bldg(trip_start(b, m))

\* The closure given to retain: the pairs in order, stopping at the first that warps
RECURSIVE schedule_ok_from(_, _, _)
schedule_ok_from(ts, k, m) ==
    IF k >= Len(ts) THEN TRUE
    ELSE IF warps(ts[k], ts[k + 1], m) THEN FALSE
    ELSE schedule_ok_from(ts, k + 1, m)

schedule_ok(person, m) == schedule_ok_from(person.trips, 1, m)

\* The ids left as they were
fix_ids_skip(ps) == ps

\* Fix up IDs: person.id = PersonID(idx)
fix_ids(ps) == [k \in 1..Len(ps) |-> [ps[k] EXCEPT !.id = k - 1]]

remove_weird_schedules(ps, m) == fix_ids(SelectSeq(ps, LAMBDA person : schedule_ok(person, m)))

RemoveWeirdSchedules ==
    /\ pc = "remove_weird_schedules"
    /\ people' = remove_weird_schedules(people, map)
    /\ pc' = "remove_weird_schedules_returned"
    /\ UNCHANGED <<scenario_name, only_seed_buses, people0, args, map, rng, rng0, vehicleVars,
                   parkingVars>>

----------------------------------------------------------------------------
(* Scenario::repeat_days *)

\* SpawnTrip::VehicleAppearing { is_bike, .. } => !is_bike, _ => false
inbound(t) == t.kind = "VehicleAppearing" /\ ~t.is_bike

\* The inner loop dropping inbound trips on every day, the first included
RECURSIVE repeat_one_day_always(_, _, _, _, _, _)
repeat_one_day_always(ts, k, day, offset, avoid, out) ==
    IF k > Len(ts) THEN out
    ELSE IF inbound(ts[k]) /\ avoid
         THEN repeat_one_day_always(ts, k + 1, day, offset, avoid, out)
         ELSE repeat_one_day_always(ts, k + 1, day, offset, avoid,
                                    Append(out, [ts[k] EXCEPT !.depart = ts[k].depart + offset]))

\* for trip in &person.trips: skip or push a copy departing offset later
RECURSIVE repeat_one_day(_, _, _, _, _, _)
repeat_one_day(ts, k, day, offset, avoid, out) ==
    IF k > Len(ts) THEN out
    ELSE IF day > 0 /\ inbound(ts[k]) /\ avoid
         THEN repeat_one_day(ts, k + 1, day, offset, avoid, out)
         ELSE repeat_one_day(ts, k + 1, day, offset, avoid,
                             Append(out, [ts[k] EXCEPT !.depart = ts[k].depart + offset]))

\* for day in 0..days: one pass over the trips, then offset += 24 hours
RECURSIVE repeat_from_day(_, _, _, _, _, _)
repeat_from_day(ts, day, days, offset, avoid, out) ==
    IF day >= days THEN out
    ELSE repeat_from_day(ts, day + 1, days, offset + 24, avoid,
                         repeat_one_day(ts, 1, day, offset, avoid, out))

repeat_days(ps, days, avoid) ==
    [k \in 1..Len(ps) |->
        [ps[k] EXCEPT !.trips = repeat_from_day(ps[k].trips, 0, days, 0, avoid, <<>>)]]

RepeatDays ==
    /\ pc = "repeat_days"
    /\ people' = repeat_days(people, args.days, args.avoid_inbound_trips)
    /\ scenario_name' = scenario_name \o <<"repeated for", args.days, "days">>
    /\ pc' = "repeat_days_returned"
    /\ UNCHANGED <<only_seed_buses, people0, args, map, rng, rng0, vehicleVars, parkingVars>>

----------------------------------------------------------------------------
(* Running the schedule utilities on a scenario *)

MaxDays == 3

\* Every list of n trip lists over S holding at most budget trips in all
RECURSIVE TripListsFor(_, _, _)
TripListsFor(S, n, budget) ==
    IF n = 0 THEN {<<>>}
    ELSE UNION {{Append(rest, ts) : rest \in TripListsFor(S, n - 1, budget - k),
                                    ts \in [1..k -> S]} : k \in 0..budget}

\* People with the given trips; ids are 0, 1, .. shifted by first_id
PeopleWith(lists, first_id) ==
    [k \in 1..Len(lists) |->
        [id |-> first_id + k - 1, orig_id |-> <<k - 1, 0>>, trips |-> lists[k]]]

Scenarios(S, budget, firsts) ==
    {PeopleWith(lists, first) :
        lists \in UNION {TripListsFor(S, n, budget) : n \in 0..MaxPeople},
        first \in firsts}

\* Trips of every variant, starting and ending at buildings and at borders
ScheduleTrips ==
    {VehicleAppearing("L1", ParkNear("B1"), FALSE),
     FromBorder("I2", ParkNear("B2"), FALSE),
     UsingParkedCar("B1", GoalBorder("I1")),
     UsingBike(SpotBldg("B1"), ParkNear("B2")),
     JustWalking(SpotBldg("B2"), SpotBldg("B1")),
     UsingTransit(SpotBldg("B2"), SpotBorder("I2"))}

ScheduleMap ==
    [NoMap EXCEPT !.lane_src = [l \in Lanes |-> IF l = "L1" THEN "I1" ELSE "I2"]]

NoArgs == [days |-> 0, avoid_inbound_trips |-> FALSE]

InitSchedule ==
    /\ pc = "remove_weird_schedules"
    /\ people \in Scenarios(ScheduleTrips, MaxScenarioTrips, {0, 1})
    /\ people0 = people
    /\ scenario_name = <<"scenario">>
    /\ only_seed_buses = Some({})
    /\ args = NoArgs
    /\ map = ScheduleMap
    /\ rng = 0
    /\ rng0 = 0
    /\ IdleVehicles
    /\ IdleParking

NextSchedule == RemoveWeirdSchedules

SpecSchedule == InitSchedule /\ [][NextSchedule]_vars

\* Trips with departure times (in hours), inbound ones among them
At(t, depart) == [t EXCEPT !.depart = depart]
RepeatTrips ==
    {At(VehicleAppearing("L1", ParkNear("B1"), FALSE), 7),
     At(VehicleAppearing("L1", ParkNear("B1"), TRUE), 8),
     At(FromBorder("I1", ParkNear("B1"), FALSE), 9),
     At(JustWalking(SpotBldg("B1"), SpotBldg("B2")), 10),
     At(UsingParkedCar("B1", GoalBorder("I1")), 17)}

InitRepeat ==
    /\ pc = "repeat_days"
    /\ people \in Scenarios(RepeatTrips, MaxScenarioTrips, {0, 1})
    /\ people0 = people
    /\ scenario_name = <<"scenario">>
    /\ only_seed_buses = Some({})
    /\ args \in [days : 0..MaxDays, avoid_inbound_trips : BOOLEAN]
    /\ map = ScheduleMap
    /\ rng = 0
    /\ rng0 = 0
    /\ IdleVehicles
    /\ IdleParking

NextRepeat == RepeatDays

SpecRepeat == InitRepeat /\ [][NextRepeat]_vars

----------------------------------------------------------------------------
(* Claims about the schedule utilities *)

\* Endpoints chain when they are the same building, or both are borders (spec 4.5)
EndpointsChain(e, f) == (e.tag = "Border" /\ f.tag = "Border") \/ (e.tag = "Bldg" /\ e = f)
Continuous(person) ==
    \A k \in 1..(Len(person.trips) - 1) :
        EndpointsChain(trip_end(person.trips[k]), trip_start(person.trips[k + 1], map))
Content(ps) == [k \in 1..Len(ps) |-> [orig_id |-> ps[k].orig_id, trips |-> ps[k].trips]]
Weeded == pc = "remove_weird_schedules_returned"

\* C6: the people whose trips all chain are all retained, in their order, with their
\* trips and orig_id as they were (people with no trip or one trip among them).
C6_ContinuousRetained ==
    Weeded =>
        Content(SelectSeq(people0, Continuous)) = Content(SelectSeq(people, Continuous))

\* Two people were retained, one of them leaving by one border and coming back by another
C6_Witness ==
    /\ Weeded
    /\ Len(people0) = 2 /\ Len(people) = 2
    /\ Len(people[1].trips) = 0
    /\ Len(people[2].trips) = 2
    /\ trip_end(people[2].trips[1]) = Border("I1")
    /\ trip_start(people[2].trips[2], map) = Border("I2")

\* C7: nobody with a pair of trips that does not chain is left, nobody else is removed,
\* and the ids of the people left are 0, 1, .. in list order.
C7_DiscontinuousRemoved ==
    Weeded =>
        /\ \A k \in 1..Len(people) : Continuous(people[k])
        /\ Len(people) = Len(SelectSeq(people0, Continuous))
        /\ \A k \in 1..Len(people) : people[k].id = k - 1

\* The first of two people was removed; the second took id 0
C7_Witness ==
    /\ Weeded
    /\ Len(people0) = 2 /\ Len(people) = 1
    /\ ~Continuous(people0[1])
    /\ people0[2].id = 1
    /\ people[1].orig_id = people0[2].orig_id
    /\ people[1].id = 0

\* The copy of trip list ts made for one day
DayCopy(ts, day, avoid) ==
    LET kept == SelectSeq(ts, LAMBDA t : ~(avoid /\ day > 0 /\ inbound(t)))
    IN [k \in 1..Len(kept) |-> [kept[k] EXCEPT !.depart = kept[k].depart + day * 24]]
RECURSIVE DayCopies(_, _, _)
DayCopies(ts, days, avoid) ==
    IF days = 0 THEN <<>> ELSE DayCopies(ts, days - 1, avoid) \o DayCopy(ts, days - 1, avoid)
Occurrences(ts, t) == Cardinality({k \in 1..Len(ts) : [ts[k] EXCEPT !.depart = 0] = [t EXCEPT !.depart = 0]})
Repeated == pc = "repeat_days_returned"

----------------------------------------------------------------------------
(* SpawnTrip::to_trip_spec *)

\* TripSpec::spawn_vehicle_at: a position on the lane if a vehicle can start there
spawn_vehicle_at(l, is_bike, m) == IF l \in m.spawn_ok THEN Some(<<l, 0>>) ELSE None

TripSpec(kind, start, goal, vehicle) ==
    [kind |-> kind, start |-> start, goal |-> goal, vehicle |-> vehicle,
     retry_if_no_room |-> kind = "VehicleAppearing"]

NoTripSpec(r, panic) == [spec |-> None, rng |-> r, panic |-> panic]

\* The result, the generator handed in as it is left, and whether an unwrap() of a
\* missing vehicle panicked
to_trip_spec(t, use_vehicle, r, m) ==
    CASE t.kind = "VehicleAppearing" ->
            IF is_none(use_vehicle) THEN NoTripSpec(r, TRUE)
            ELSE [spec |-> Some(TripSpec("VehicleAppearing", <<t.start, 0>>, t.goal, use_vehicle)),
                  rng |-> r, panic |-> FALSE]
      [] t.kind = "FromBorder" ->
            LET lanes == m.outgoing[t.start][IF t.is_bike THEN "Bike" ELSE "Car"]
                l == choose(lanes, r)
                pos == IF is_none(l.value) THEN None
                       ELSE spawn_vehicle_at(unwrap(l.value), t.is_bike, m)
            IN IF is_none(pos) THEN NoTripSpec(l.rng, FALSE)
               ELSE IF is_none(use_vehicle) THEN NoTripSpec(l.rng, TRUE)
               ELSE [spec |-> Some(TripSpec("VehicleAppearing", unwrap(pos), t.goal, use_vehicle)),
                     rng |-> l.rng, panic |-> FALSE]
      [] t.kind \in {"UsingParkedCar", "UsingBike"} ->
            IF is_none(use_vehicle) THEN NoTripSpec(r, TRUE)
            ELSE [spec |-> Some(TripSpec(t.kind, t.start, t.goal, use_vehicle)),
                  rng |-> r, panic |-> FALSE]
      [] OTHER -> [spec |-> Some(TripSpec(t.kind, t.start, t.goal, None)),
                   rng |-> r, panic |-> FALSE]

----------------------------------------------------------------------------
(* Scenario::instantiate *)

\* What the loop over the people reads and writes
InstState(r, s, parked, spawned, warned, panic) ==
    [rng |-> r, sim |-> s, parked_cars |-> parked, spawner |-> spawned, warnings |-> warned,
     panic |-> panic]

\* sim.new_person(id, ped_speed, vehicle_specs): the person, with a vehicle per spec
new_person(id, ped_speed, specs) ==
    [id |-> id, ped_speed |-> ped_speed,
     vehicles |-> [k \in 1..Len(specs) |-> [id |-> <<id, k - 1>>, spec |-> specs[k]]]]

\* The body of the loop over a person's trips with to_trip_spec drawing from the base
\* generator
resolve_trip_shared(st, person, t, maybe_idx, m) ==
    LET use_vehicle == IF is_none(maybe_idx) THEN None
                       ELSE Some(person.vehicles[unwrap(maybe_idx) + 1].id)
        res == to_trip_spec(t, use_vehicle, st.rng, m)
    IN IF is_some(res.spec)
       THEN [st EXCEPT !.rng = res.rng,
                       !.spawner = Append(st.spawner, [person |-> person.id, depart |-> t.depart,
                                                       spec |-> unwrap(res.spec)])]
       ELSE [st EXCEPT !.rng = res.rng,
                       !.warnings = Append(st.warnings, <<"Couldn't turn into a trip", t>>),
                       !.panic = st.panic \/ res.panic]

\* The body of the loop over a person's trips where a trip that cannot be resolved ends
\* the run
resolve_trip_fatal(st, person, t, maybe_idx, m) ==
    LET f == fork_rng(st.rng)
        use_vehicle == IF is_none(maybe_idx) THEN None
                       ELSE Some(person.vehicles[unwrap(maybe_idx) + 1].id)
        res == to_trip_spec(t, use_vehicle, f.child, m)
    IN IF is_some(res.spec)
       THEN [st EXCEPT !.rng = f.rng,
                       !.spawner = Append(st.spawner, [person |-> person.id, depart |-> t.depart,
                                                       spec |-> unwrap(res.spec)])]
       ELSE [st EXCEPT !.rng = f.rng, !.panic = TRUE]

\* The body of the loop over a person's trips: fork, resolve, schedule or warn
resolve_trip(st, person, t, maybe_idx, m) ==
    LET f == fork_rng(st.rng)
        use_vehicle == IF is_none(maybe_idx) THEN None
                       ELSE Some(person.vehicles[unwrap(maybe_idx) + 1].id)
        res == to_trip_spec(t, use_vehicle, f.child, m)
    IN IF is_some(res.spec)
       THEN [st EXCEPT !.rng = f.rng,
                       !.spawner = Append(st.spawner, [person |-> person.id, depart |-> t.depart,
                                                       spec |-> unwrap(res.spec)])]
       ELSE [st EXCEPT !.rng = f.rng,
                       !.warnings = Append(st.warnings, <<"Couldn't turn into a trip", t>>),
                       !.panic = st.panic \/ res.panic]

RECURSIVE resolve_trips_from(_, _, _, _, _, _)
resolve_trips_from(st, person, ts, foreach, k, m) ==
    IF k > Len(ts) THEN st
    ELSE resolve_trips_from(resolve_trip(st, person, ts[k], foreach[k], m),
                            person, ts, foreach, k + 1, m)

\* The body of the loop over self.people with a generator forked for each person: the
\* vehicles and the walking speed are drawn from the fork
instantiate_person_forked(st, p, m) ==
    LET f == fork_rng(st.rng)
        gv == get_vehicles(p.trips, f.child)
        speed == rand_ped_speed(gv.rng)
        person == new_person(p.id, speed.value, gv.vehicle_specs)
        parked == [k \in 1..Len(gv.cars_initially_parked_at) |->
                      <<person.vehicles[gv.cars_initially_parked_at[k][1] + 1],
                        gv.cars_initially_parked_at[k][2]>>]
        registered == [st EXCEPT !.rng = f.rng,
                                 !.sim = [st.sim EXCEPT !.people = Append(st.sim.people, person)],
                                 !.parked_cars = st.parked_cars \o parked]
    IN resolve_trips_from(registered, person, p.trips, gv.vehicle_foreach_trip, 1, m)

\* The body of the loop over self.people
instantiate_person(st, p, m) ==
    LET gv == get_vehicles(p.trips, st.rng)
        speed == rand_ped_speed(gv.rng)
        person == new_person(p.id, speed.value, gv.vehicle_specs)
        parked == [k \in 1..Len(gv.cars_initially_parked_at) |->
                      <<person.vehicles[gv.cars_initially_parked_at[k][1] + 1],
                        gv.cars_initially_parked_at[k][2]>>]
        registered == [st EXCEPT !.rng = speed.rng,
                                 !.sim = [st.sim EXCEPT !.people = Append(st.sim.people, person)],
                                 !.parked_cars = st.parked_cars \o parked]
    IN resolve_trips_from(registered, person, p.trips, gv.vehicle_foreach_trip, 1, m)

\* The loop over people[from..to]
RECURSIVE instantiate_people(_, _, _, _, _)
instantiate_people(st, ps, k, to, m) ==
    IF k > to THEN st
    ELSE instantiate_people(instantiate_person(st, ps[k], m), ps, k + 1, to, m)

\* The bus routes seeded: those named in only_seed_buses, or all of them
seed_buses(routes, only) ==
    IF is_some(only) THEN SelectSeq(routes, LAMBDA route : route \in unwrap(only)) ELSE routes

\* Entry of instantiate up to the loop over the people
InstantiateStart ==
    /\ pc = "instantiate"
    /\ sim' = [sim EXCEPT !.name = scenario_name,
                          !.buses = seed_buses(map.bus_routes, only_seed_buses)]
    /\ spawner' = <<>>
    /\ parked_cars' = <<>>
    /\ person_idx' = 0
    /\ pc' = "instantiate_people"
    /\ UNCHANGED <<map, rng, rng0, open_spots_per_road, ok, car_idx, warnings, scheduleVars,
                   vehicleVars>>

\* One person: vehicles, registration, parked cars, trips
InstantiatePerson ==
    /\ pc = "instantiate_people"
    /\ person_idx < Len(people)
    /\ LET st == instantiate_person(InstState(rng, sim, parked_cars, spawner, warnings, FALSE),
                                    people[person_idx + 1], map)
       IN /\ rng' = st.rng
          /\ sim' = st.sim
          /\ parked_cars' = st.parked_cars
          /\ spawner' = st.spawner
          /\ warnings' = st.warnings
          /\ pc' = IF st.panic THEN "panicked" ELSE pc
    /\ person_idx' = person_idx + 1
    /\ UNCHANGED <<map, rng0, open_spots_per_road, ok, car_idx, scheduleVars, vehicleVars>>

\* parked_cars.shuffle(rng), then the call of seed_parked_cars
InstantiateShuffle ==
    /\ pc = "instantiate_people"
    /\ person_idx = Len(people)
    /\ LET sh == shuffle(parked_cars, rng)
       IN /\ parked_cars' = sh.seq
          /\ rng' = sh.rng
    /\ pc' = "seed_parked_cars"
    /\ UNCHANGED <<map, rng0, open_spots_per_road, ok, car_idx, person_idx, spawner, sim,
                   warnings, scheduleVars, vehicleVars>>

\* sim.flush_spawner(spawner, map, timer)
FlushSpawner ==
    /\ pc = "seed_parked_cars_returned"
    /\ sim.name # <<>>
    /\ sim' = [sim EXCEPT !.trips = sim.trips \o spawner]
    /\ spawner' = <<>>
    /\ pc' = "instantiated"
    /\ UNCHANGED <<map, rng, rng0, parked_cars, open_spots_per_road, ok, car_idx, person_idx,
                   warnings, scheduleVars, vehicleVars>>

----------------------------------------------------------------------------
(* Running instantiate on a scenario, a map and a Sim *)

MaxInstantiateTrips == 2

InstantiateTrips ==
    {FromBorder("I1", ParkNear("B1"), FALSE),
     FromBorder("I1", GoalBorder("I1"), TRUE),
     VehicleAppearing("L1", ParkNear("B2"), FALSE),
     UsingParkedCar("B1", GoalBorder("I1")),
     JustWalking(SpotBldg("B1"), SpotBldg("B2"))}

\* The lanes leaving the border, for cars and for bikes, and where a vehicle can start
BorderMap(car_lanes, bike_lanes, fits) ==
    [ParkingMap(TwoWay({<<"R1", "R2">>, <<"R2", "R3">>})) EXCEPT
        !.lane_src = [l \in Lanes |-> "I1"],
        !.outgoing = [i \in Borders |-> [Car |-> car_lanes, Bike |-> bike_lanes]],
        !.spawn_ok = fits,
        !.bus_routes = <<"route1", "route2">>]

\* Maps that differ in the lanes leaving the border: none, one, two (one of them too
\* short to start on)
InstantiateMaps ==
    {BorderMap(<<>>, <<>>, Lanes),
     BorderMap(<<"L1">>, <<"L1">>, Lanes),
     BorderMap(<<"L1", "L2">>, <<"L2">>, {"L1"})}

\* The filter of bus routes is read at the entry of instantiate only; it is varied on the
\* scenarios of at most one person
InitInstantiate ==
    /\ pc = "instantiate"
    /\ people \in Scenarios(InstantiateTrips, MaxInstantiateTrips, {0})
    /\ people0 = people
    /\ scenario_name = <<"scenario">>
    /\ only_seed_buses \in (IF Len(people) <= 1 THEN {None, Some({"route1"})} ELSE {None})
    /\ args = NoArgs
    /\ map \in InstantiateMaps
    /\ sim \in {[NoSim EXCEPT !.free_spots = Inventory(n, 0)] : n \in {<<0, 0, 0>>, <<0, 1, 1>>}}
    /\ rng \in Seeds
    /\ rng0 = rng
    /\ parked_cars = <<>>
    /\ open_spots_per_road = <<>>
    /\ ok = TRUE
    /\ car_idx = 0
    /\ person_idx = 0
    /\ spawner = <<>>
    /\ warnings = <<>>
    /\ IdleVehicles

Init == InitInstantiate

Next ==
    \/ InstantiateStart
    \/ InstantiatePerson
    \/ InstantiateShuffle
    \/ SeedSetup
    \/ SeedCar
    \/ SeedSkip
    \/ SeedReturn
    \/ FlushSpawner

Spec == Init /\ [][Next]_vars

----------------------------------------------------------------------------
(* Claims about instantiate *)

\* The loop over the first n people as it runs on map m from the generator state at the
\* call
PeopleLoopOn(m, n) ==
    instantiate_people(InstState(rng0, NoSim, <<>>, <<>>, <<>>, FALSE), people, 1, n, m)

\* C9: after any number of people the base generator, the people registered (vehicles,
\* walking speed) and the parked cars collected are those the same scenario and seed give
\* on every other map, whatever lanes leave its border; so is the shuffle of the parked
\* cars that follows the loop.
C9_BaseRngMapIndependent ==
    /\ pc = "instantiate_people" =>
           \A m \in InstantiateMaps :
               LET other == PeopleLoopOn(m, person_idx)
               IN /\ other.rng = rng
                  /\ other.sim.people = sim.people
                  /\ other.parked_cars = parked_cars
    /\ pc = "seed_parked_cars" =>
           \A m \in InstantiateMaps :
               LET other == PeopleLoopOn(m, Len(people))
                   sh == shuffle(other.parked_cars, other.rng)
               IN /\ sh.rng = rng
                  /\ sh.seq = parked_cars
                  /\ other.sim.people = sim.people

\* The first person entered by a border with two lanes to choose from, the second owns a
\* parked car; on the map with no lane the first trip would have been dropped
C9_Witness ==
    /\ pc = "seed_parked_cars"
    /\ Len(people) = 2
    /\ Len(people[1].trips) = 1 /\ people[1].trips[1].kind = "FromBorder"
    /\ Len(map.outgoing["I1"].Car) = 2
    /\ Len(spawner) = 2
    /\ Len(parked_cars) = 1
    /\ \E m \in InstantiateMaps : PeopleLoopOn(m, 2).spawner # spawner

\* The person registered for p when get_vehicles and rand_ped_speed draw from generator
\* state r
PersonFrom(p, r) ==
    LET gv == get_vehicles(p.trips, r)
    IN new_person(p.id, rand_ped_speed(gv.rng).value, gv.vehicle_specs)

\* The generator after k draws
RECURSIVE Advance(_, _)
Advance(r, k) == IF k = 0 THEN r ELSE Advance(next_u32(r), k - 1)

\* The draws the first n registered people made from the base generator: one for each
\* vehicle and one for the walking speed
RECURSIVE DrawsOf(_)
DrawsOf(n) == IF n = 0 THEN 0 ELSE DrawsOf(n - 1) + Len(sim.people[n].vehicles) + 1

VehicleTypes(person) == [k \in 1..Len(person.vehicles) |-> person.vehicles[k].spec.vehicle_type]

\* C11 as stated: a person's vehicle specs and walking speed are those the person gets
\* when resolved first, whoever was resolved before them.
C11_Original ==
    pc = "instantiate_people" =>
        \A n \in 1..person_idx : sim.people[n] = PersonFrom(people[n], rng0)

\* C11, amended: the number and the types of a person's vehicles are those the person
\* gets when resolved first; the lengths, the bike speed and the walking speed are drawn
\* from the base generator as the earlier people left it, that is after one draw for
\* each vehicle and one for the walking speed of every earlier person.
C11_SharedBaseStream ==
    pc = "instantiate_people" =>
        \A n \in 1..person_idx :
            /\ sim.people[n] = PersonFrom(people[n], Advance(rng0, DrawsOf(n - 1)))
            /\ VehicleTypes(sim.people[n]) = VehicleTypes(PersonFrom(people[n], rng0))

\* The second person drives a car whose length is not the one they get when resolved
\* first
C11_Witness ==
    /\ pc = "instantiate_people"
    /\ person_idx = 2
    /\ Len(sim.people[2].vehicles) = 1
    /\ Len(sim.people[1].vehicles) = 1
    /\ sim.people[2].vehicles[1].spec.length # PersonFrom(people[2], rng0).vehicles[1].spec.length

----------------------------------------------------------------------------
(* Trips that cannot be turned into a trip spec *)

\* The lanes a FromBorder trip chooses from
LanesFor(t) == map.outgoing[t.start][IF t.is_bike THEN "Bike" ELSE "Car"]

\* No lane the trip may choose gives a start position: to_trip_spec returns None
NoLane(t) ==
    /\ t.kind = "FromBorder"
    /\ \A k \in 1..Len(LanesFor(t)) : LanesFor(t)[k] \notin map.spawn_ok

\* Every lane the trip may choose gives a start position, or the trip chooses no lane
SureLane(t) ==
    \/ t.kind # "FromBorder"
    \/ /\ LanesFor(t) # <<>>
       /\ \A k \in 1..Len(LanesFor(t)) : LanesFor(t)[k] \in map.spawn_ok

\* The trips handed to the spawner so far, flushed or not
Scheduled == sim.trips \o spawner

ScheduledFor(id) == SelectSeq(Scheduled, LAMBDA e : e.person = id)

CouldNot == SelectSeq(warnings, LAMBDA w : w[1] = "Couldn't turn into a trip")

\* A scheduled entry is the one of trip t
EntryOf(e, t) ==
    /\ e.depart = t.depart
    /\ e.spec.goal = t.goal
    /\ e.spec.kind = (IF t.kind = "FromBorder" THEN "VehicleAppearing" ELSE t.kind)

\* es[j..] are the entries of the trips ts[i..], in order, less the trips that gave no
\* spec
RECURSIVE EntriesMatch(_, _, _, _)
EntriesMatch(ts, es, i, j) ==
    IF i > Len(ts) THEN j > Len(es)
    ELSE LET kept == j <= Len(es) /\ EntryOf(es[j], ts[i]) /\ EntriesMatch(ts, es, i + 1, j + 1)
             dropped == EntriesMatch(ts, es, i + 1, j)
         IN IF SureLane(ts[i]) THEN kept
            ELSE IF NoLane(ts[i]) THEN dropped
            ELSE kept \/ dropped

RECURSIVE TripsOfFirst(_)
TripsOfFirst(n) == IF n = 0 THEN 0 ELSE TripsOfFirst(n - 1) + Len(people[n].trips)

InstantiatePcs ==
    {"instantiate", "instantiate_people", "seed_parked_cars", "seed_loop",
     "seed_parked_cars_returned", "instantiated"}

\* C12: a trip for which to_trip_spec gives no spec is not scheduled and is warned about;
\* the person is still registered with all their vehicles, every other trip of that person
\* and of the other people is scheduled, and the run goes on through the parking
\* allocation to the flush: it never aborts, and the guards of the next person, of the
\* shuffle and of the flush hold where the run stands before them.
C12_DroppedTripNotFatal ==
    /\ pc \in InstantiatePcs
    /\ pc = "instantiate_people" => person_idx <= Len(people)
    /\ pc = "seed_parked_cars_returned" => sim.name # <<>>
    /\ pc \notin {"instantiate", "instantiate_people"} => person_idx = Len(people)
    /\ pc # "instantiate" =>
           /\ Len(sim.people) = person_idx
           /\ \A n \in 1..person_idx :
                  /\ sim.people[n].id = people[n].id
                  /\ VehicleTypes(sim.people[n]) = VehicleTypes(PersonFrom(people[n], rng0))
                  /\ EntriesMatch(people[n].trips, ScheduledFor(people[n].id), 1, 1)
           /\ Len(Scheduled) + Len(CouldNot) = TripsOfFirst(person_idx)
           /\ \A k \in 1..Len(CouldNot) : ~SureLane(CouldNot[k][2])
    /\ pc = "instantiated" => spawner = <<>>

\* On the map with no lane leaving the border a person drove in and then drove the parked
\* car away: the first trip was dropped with a warning, the person has the car, the second
\* trip is the one flushed
C12_Witness ==
    /\ pc = "instantiated"
    /\ Len(people) = 1
    /\ Len(people[1].trips) = 2
    /\ NoLane(people[1].trips[1])
    /\ people[1].trips[2].kind = "UsingParkedCar"
    /\ Len(sim.people[1].vehicles) = 1
    /\ Len(sim.trips) = 1 /\ sim.trips[1].spec.kind = "UsingParkedCar"
    /\ CouldNot = << <<"Couldn't turn into a trip", people[1].trips[1]>> >>

----------------------------------------------------------------------------
(* More claims about get_vehicles *)

\* The cars bound to "parked at b" in the car-location state
ParkedAt(b) == {car_locations[k][1] : k \in {k \in 1..Len(car_locations) : car_locations[k][2] = Some(b)}}

\* An iteration of the loop over the trips
GvStep == pc = "get_vehicles" /\ trip_idx' = trip_idx + 1

\* C13: a UsingParkedCar(B, goal) trip is given a car bound to "parked at B" if there is
\* one, and then no vehicle is created and nothing is recorded; otherwise a new car is
\* created for it and (its index, B) is appended to cars_initially_parked_at. A trip of any
\* other variant leaves cars_initially_parked_at as it is.
C13_ParkedCarReuseOrRecord ==
    [][GvStep =>
        LET t == trips[trip_idx + 1]
            used == vehicle_foreach_trip'[trip_idx + 1]
        IN IF t.kind = "UsingParkedCar"
           THEN IF ParkedAt(t.start) # {}
                THEN /\ is_some(used) /\ unwrap(used) \in ParkedAt(t.start)
                     /\ vehicle_specs' = vehicle_specs
                     /\ cars_initially_parked_at' = cars_initially_parked_at
                ELSE /\ used = Some(Len(vehicle_specs))
                     /\ Len(vehicle_specs') = Len(vehicle_specs) + 1
                     /\ vehicle_specs'[Len(vehicle_specs')].vehicle_type = "Car"
                     /\ cars_initially_parked_at' =
                            Append(cars_initially_parked_at, <<Len(vehicle_specs), t.start>>)
           ELSE cars_initially_parked_at' = cars_initially_parked_at
    ]_vars

\* A car taken at B1 and parked at B2, taken again at B2, and a second car taken at B1
C13_Witness ==
    /\ Returned
    /\ Len(trips) = 3
    /\ \A k \in 1..3 : trips[k].kind = "UsingParkedCar"
    /\ vehicle_foreach_trip = <<Some(0), Some(0), Some(1)>>
    /\ cars_initially_parked_at = << <<0, "B1">>, <<1, "B1">> >>

BikeIndices == {k \in 0..(Len(vehicle_specs) - 1) : vehicle_specs[k + 1].vehicle_type = "Bike"}
BikeTripsDone == {k \in 1..trip_idx : IsBikeTrip(trips[k])}

\* C14: a person has at most one bike. It is created by the first bike-using trip
\* (UsingBike, or VehicleAppearing/FromBorder with is_bike), every bike-using trip is
\* assigned its index and no other trip is; a bike-using trip leaves the car-location state
\* and cars_initially_parked_at as they are, and what it does is the same whatever the
\* car-location state holds.
C14_OneBike ==
    /\ [](pc \in {"get_vehicles", "get_vehicles_returned"} =>
            /\ Cardinality(BikeIndices) <= 1
            /\ (BikeTripsDone = {}) = (BikeIndices = {})
            /\ (BikeTripsDone = {}) = is_none(bike_idx)
            /\ \A k \in 1..trip_idx :
                   IsBikeTrip(trips[k]) <=>
                       (is_some(vehicle_foreach_trip[k])
                            /\ unwrap(vehicle_foreach_trip[k]) \in BikeIndices))
    /\ [][(GvStep /\ IsBikeTrip(trips[trip_idx + 1])) =>
            LET blind == get_vehicles_trip([GvLocals EXCEPT !.car_locations = <<>>],
                                           trips[trip_idx + 1])
            IN /\ car_locations' = car_locations
               /\ cars_initially_parked_at' = cars_initially_parked_at
               /\ vehicle_specs' = blind.vehicle_specs
               /\ vehicle_foreach_trip' = blind.vehicle_foreach_trip
               /\ bike_idx' = blind.bike_idx
               /\ IF BikeTripsDone = {}
                  THEN /\ bike_idx' = Some(Len(vehicle_specs))
                       /\ Len(vehicle_specs') = Len(vehicle_specs) + 1
                       /\ vehicle_specs'[Len(vehicle_specs')].vehicle_type = "Bike"
                  ELSE /\ bike_idx' = bike_idx
                       /\ vehicle_specs' = vehicle_specs
       ]_vars

\* A bike ride in from the border, a car trip, then a UsingBike trip on the same bike
C14_Witness ==
    /\ Returned
    /\ Len(trips) = 3
    /\ trips[1].kind = "FromBorder" /\ trips[1].is_bike
    /\ IsCarArrival(trips[2])
    /\ trips[3].kind = "UsingBike"
    /\ vehicle_foreach_trip = <<Some(0), Some(1), Some(0)>>
    /\ car_locations # <<>>

----------------------------------------------------------------------------
(* The pairs of trips that continuity validation rejects *)

\* One side is a building and the other a border, or the two sides are different
\* buildings
Discontinuous(e, f) ==
    \/ e.tag = "Bldg" /\ f.tag = "Border"
    \/ e.tag = "Border" /\ f.tag = "Bldg"
    \/ e.tag = "Bldg" /\ f.tag = "Bldg" /\ e.id # f.id

HasDiscontinuousPair(person) ==
    \E k \in 1..(Len(person.trips) - 1) :
        Discontinuous(trip_end(person.trips[k]), trip_start(person.trips[k + 1], map))

Retained(person) == \E j \in 1..Len(people) : people[j].orig_id = person.orig_id

\* C15: a person is removed exactly when some pair of consecutive trips has a building on
\* one side and a border on the other, or two different buildings; a trip ending at a
\* border followed by a trip starting at a border is accepted, whether or not the two
\* border intersections are the same.
C15_BorderToBorderContinuous ==
    Weeded =>
        /\ \A k \in 1..Len(people0) : Retained(people0[k]) <=> ~HasDiscontinuousPair(people0[k])
        /\ \A k \in 1..Len(people0) :
               (\A i \in 1..(Len(people0[k].trips) - 1) :
                    /\ trip_end(people0[k].trips[i]).tag = "Border"
                    /\ trip_start(people0[k].trips[i + 1], map).tag = "Border")
                   => Retained(people0[k])

\* Out by border I1, back in by border I2 to park at B2, then a walk from B2: retained
C15_Witness ==
    /\ Weeded
    /\ Len(people0) = 1 /\ Len(people) = 1
    /\ Len(people[1].trips) = 3
    /\ trip_end(people[1].trips[1]) = Border("I1")
    /\ trip_start(people[1].trips[2], map) = Border("I2")
    /\ trip_end(people[1].trips[2]) = Bldg("B2")
    /\ trip_start(people[1].trips[3], map) = Bldg("B2")

----------------------------------------------------------------------------
(* More claims about the parking allocator *)

\* Some road reachable from building b's road has a spot in its pool
RoomNear(b, pools) ==
    \E r \in Roads :
        /\ Reachable(map, map.building_to_road[b], r)
        /\ PoolSpots(pools, r) # {}

\* A search made by the loop of seed_parked_cars
SeedSearch == pc = "seed_loop" /\ ok /\ car_idx' = car_idx + 1

\* C16: find_spot_near_building returns no spot exactly when no road reachable from the
\* building's road through get_next_roads has a spot in its pool at the call, and then it
\* leaves every pool as it was: for the search of every pair of the batch, and for a
\* search for any building from any state of the pools the batch goes through.
C16_NoSpotIffNoneReachable ==
    /\ [](pc = "seed_loop" =>
            \A b \in Buildings :
                LET found == find_spot_near_building(b, open_spots_per_road, map)
                IN /\ is_none(found.spot) <=> ~RoomNear(b, open_spots_per_road)
                   /\ is_none(found.spot) => found.pools = open_spots_per_road)
    /\ [][SeedSearch =>
            LET b == parked_cars[car_idx + 1][2]
            IN /\ (Len(sim'.parked) = Len(sim.parked)) <=> ~RoomNear(b, open_spots_per_road)
               /\ ~ok' <=> ~RoomNear(b, open_spots_per_road)
               /\ ~ok' => open_spots_per_road' = open_spots_per_road
       ]_vars

\* The search for B1 failed although R2 and R3 have free spots: R1 leads nowhere
C16_Witness ==
    /\ pc = "seed_loop" /\ ~ok
    /\ car_idx = 1
    /\ parked_cars[1][2] = "B1"
    /\ map.next_roads["R1"] = <<>>
    /\ PoolSpots(open_spots_per_road, "R2") # {}
    /\ PoolSpots(open_spots_per_road, "R3") # {}
    /\ sim.parked = <<>>

\* The cars that have a binding in the car-location state
LocatedCars == {car_locations[k][1] : k \in 1..Len(car_locations)}

\* C17: after any prefix of the trip list no car index appears twice in the car-location
\* state, every car created so far appears in it, and no bike index does.
C17_OneBindingPerCar ==
    pc \in {"get_vehicles", "get_vehicles_returned"} =>
        /\ \A i, j \in 1..Len(car_locations) :
               car_locations[i][1] = car_locations[j][1] => i = j
        /\ LocatedCars = CarIndices
        /\ LocatedCars \cap BikeIndices = {}
        /\ Len(car_locations) = Cardinality(CarIndices)

\* A car bound a second time by a later trip, and a bike
C17_Witness ==
    /\ pc = "get_vehicles"
    /\ trip_idx = 3
    /\ Cardinality(CarIndices) = 1
    /\ Cardinality(BikeIndices) = 1
    /\ \E i, j \in 1..3 :
           /\ i < j
           /\ is_some(vehicle_foreach_trip[i])
           /\ vehicle_foreach_trip[i] = vehicle_foreach_trip[j]
           /\ unwrap(vehicle_foreach_trip[i]) \in CarIndices
    /\ Len(car_locations) = 1

\* The spots handed to seed_parked_car, the spots left in the pools, and how many entries
\* the pools hold
Handed == {sim.parked[k][2] : k \in 1..Len(sim.parked)}
Pooled == UNION {PoolSpots(open_spots_per_road, r) : r \in DOMAIN open_spots_per_road}
RECURSIVE PooledCount(_, _)
PooledCount(pools, k) ==
    IF k > Len(RoadOrder) THEN 0
    ELSE (IF RoadOrder[k] \in DOMAIN pools THEN Len(pools[RoadOrder[k]]) ELSE 0)
         + PooledCount(pools, k + 1)

\* C18: no spot is bound to two vehicles and no vehicle to two spots; the pools hold every
\* free spot of the inventory once when the loop starts; a spot handed out was in a pool
\* and is in none afterwards, and the spots handed out together with the spots left in
\* the pools stay the same set, the initial inventory, through the batch.
C18_SpotsConserved ==
    /\ [](pc \in {"seed_loop", "seed_parked_cars_returned"} =>
            /\ \A i, j \in 1..Len(sim.parked) :
                   (sim.parked[i][1] = sim.parked[j][1] \/ sim.parked[i][2] = sim.parked[j][2])
                       => i = j
            /\ Handed \cap Pooled = {}
            /\ PooledCount(open_spots_per_road, 1) = Cardinality(Pooled))
    /\ [][(pc = "seed_parked_cars" /\ pc' = "seed_loop") =>
             (/\ Pooled' = {sim.free_spots[k] : k \in 1..Len(sim.free_spots)}
              /\ PooledCount(open_spots_per_road', 1) = Len(sim.free_spots)
              /\ Handed' = {})
       ]_vars
    /\ [][pc = "seed_loop" =>
             (/\ Handed' \cup Pooled' = Handed \cup Pooled
              /\ (Len(sim'.parked) > Len(sim.parked)) =>
                     (/\ Len(sim'.parked) = Len(sim.parked) + 1
                      /\ sim'.parked[Len(sim'.parked)][1] = parked_cars[car_idx + 1][1]
                      /\ sim'.parked[Len(sim'.parked)][2] \in Pooled
                      /\ sim'.parked[Len(sim'.parked)][2] \notin Pooled'))
       ]_vars

\* Two vehicles of a batch were given the two spots of one road
C18_Witness ==
    /\ pc = "seed_parked_cars_returned" /\ ok
    /\ Len(sim.parked) = 2
    /\ sim.parked[1][1] # sim.parked[2][1]
    /\ sim.parked[1][2] # sim.parked[2][2]
    /\ spot_road(map, sim.parked[1][2]) = spot_road(map, sim.parked[2][2])
    /\ Pooled # {}

----------------------------------------------------------------------------
(* The vehicle chosen for each trip *)

UsesNoVehicle(t) == t.kind \in {"JustWalking", "UsingTransit"}

\* maybe_idx.map(|idx| person.vehicles[idx].id) for a person with id 0
UseVehicle(maybe_idx) == IF is_none(maybe_idx) THEN None ELSE Some(<<0, unwrap(maybe_idx)>>)

\* C19: get_vehicles gives one choice per trip, in trip order: none exactly for the
\* JustWalking and UsingTransit trips, and otherwise an index into vehicle_specs of a bike
\* for a bike-using trip and of a car for the other trips. With the choices returned,
\* to_trip_spec unwraps no missing vehicle, on any map and with any generator.
C19_ChoicePerTrip ==
    /\ pc \in {"get_vehicles", "get_vehicles_returned"} =>
           /\ Len(vehicle_foreach_trip) = trip_idx
           /\ \A k \in 1..trip_idx :
                  LET choice == vehicle_foreach_trip[k]
                  IN /\ is_none(choice) <=> UsesNoVehicle(trips[k])
                     /\ is_some(choice) =>
                            /\ unwrap(choice) \in 0..(Len(vehicle_specs) - 1)
                            /\ unwrap(choice) \in
                                   (IF IsBikeTrip(trips[k]) THEN BikeIndices ELSE CarIndices)
    /\ Returned =>
           /\ Len(vehicle_foreach_trip) = Len(trips)
           /\ \A k \in 1..Len(trips), m \in InstantiateMaps, r \in Seeds :
                  ~to_trip_spec(trips[k], UseVehicle(vehicle_foreach_trip[k]), r, m).panic

\* A walk, a bike ride and a drive in a parked car: none, the bike, the car
C19_Witness ==
    /\ Returned
    /\ Len(trips) = 3
    /\ trips[1].kind = "JustWalking"
    /\ trips[2].kind = "UsingBike"
    /\ trips[3].kind = "UsingParkedCar"
    /\ vehicle_foreach_trip = <<None, Some(0), Some(1)>>
    /\ vehicle_specs[1].vehicle_type = "Bike"
    /\ vehicle_specs[2].vehicle_type = "Car"

----------------------------------------------------------------------------
(* What of get_vehicles depends on the generator *)

\* The structural result: the types of the vehicles, the cars initially parked and the
\* vehicle of each trip
Structure(gv) ==
    [types |-> [k \in 1..Len(gv.vehicle_specs) |-> gv.vehicle_specs[k].vehicle_type],
     cars_initially_parked_at |-> gv.cars_initially_parked_at,
     vehicle_foreach_trip |-> gv.vehicle_foreach_trip]

\* The (vehicle id, building) pairs the first n people give when each runs get_vehicles
\* from generator state r
RECURSIVE PairsOfFirst(_, _)
PairsOfFirst(n, r) ==
    IF n = 0 THEN <<>>
    ELSE LET gv == get_vehicles(people[n].trips, r)
         IN PairsOfFirst(n - 1, r)
            \o [k \in 1..Len(gv.cars_initially_parked_at) |->
                   << <<people[n].id, gv.cars_initially_parked_at[k][1]>>,
                      gv.cars_initially_parked_at[k][2] >>]

PairsCollected == [k \in 1..Len(parked_cars) |-> <<parked_cars[k][1].id, parked_cars[k][2]>>]

PairsFor(b) == {k \in 1..Len(parked_cars) : parked_cars[k][2] = b}

\* C20: for every person, get_vehicles gives the same vehicle types, the same
\* cars_initially_parked_at and the same vehicle for each trip from every generator state;
\* the people registered and the pairs collected by instantiate are those. For every
\* building, count_parked_cars_per_bldg gives the number of pairs instantiate hands to
\* seed_parked_cars for that building.
C20_StructureRngIndependent ==
    /\ pc = "instantiate_people" =>
           /\ \A n \in 1..person_idx :
                  LET dummy == Structure(get_vehicles(people[n].trips, DummySeed))
                  IN /\ \A r \in RngStates :
                            Structure(get_vehicles(people[n].trips, r)) = dummy
                     /\ dummy.types = VehicleTypes(sim.people[n])
           /\ PairsOfFirst(person_idx, DummySeed) = PairsCollected
    /\ pc = "seed_parked_cars" =>
           \A b \in Buildings :
               count_parked_cars_per_bldg(people)[b] = Cardinality(PairsFor(b))

\* One person drove in to park at B1, another took a car parked at B1: two cars, one
\* counted
C20_Witness ==
    /\ pc = "seed_parked_cars"
    /\ Len(people) = 2
    /\ Len(sim.people[1].vehicles) = 1 /\ Len(sim.people[2].vehicles) = 1
    /\ people[1].trips[1].kind = "FromBorder"
    /\ people[2].trips[1].kind = "UsingParkedCar"
    /\ count_parked_cars_per_bldg(people) = [b \in Buildings |-> IF b = "B1" THEN 1 ELSE 0]
    /\ Len(parked_cars) = 1

----------------------------------------------------------------------------
(* Termination of the search and of the batch *)

ReachableFrom(b) == {r \in Roads : Reachable(map, map.building_to_road[b], r)}

\* C21: a search takes each road off the queue at most once and only roads reachable from
\* the building's road, so at most as many as are reachable, on networks with cycles and
\* with no free spot anywhere; a search that fails has taken every reachable road once.
\* The loop over the batch never passes its end, and seed_parked_cars returns.
C21_SearchAndBatchTerminate ==
    /\ [](pc = "seed_loop" =>
            \A b \in Buildings :
                LET found == find_spot_near_building(b, open_spots_per_road, map)
                    taken == {found.popped[k] : k \in 1..Len(found.popped)}
                IN /\ Len(found.popped) = Cardinality(taken)
                   /\ taken \subseteq found.visited
                   /\ found.visited \subseteq ReachableFrom(b)
                   /\ Len(found.popped) <= Cardinality(ReachableFrom(b))
                   /\ is_none(found.spot) => taken = ReachableFrom(b))
    /\ [](car_idx <= Len(parked_cars))
    /\ <>(pc = "seed_parked_cars_returned")

\* Three roads in a cycle and no free spot anywhere: the batch of two was gone through
C21_Witness ==
    /\ pc = "seed_parked_cars_returned"
    /\ map.next_roads = TwoWay(Edges)
    /\ sim.free_spots = <<>>
    /\ Len(parked_cars) = 2 /\ car_idx = 2
    /\ ~ok
    /\ Len(find_spot_near_building("B1", open_spots_per_road, map).popped) = 3

====
